---- MODULE Spec2Model ----
(***************************************************************************)
(* Model of the streamed-event reassembler of backend/main.py              *)
(* (generate_project.event_stream), of the file materializers              *)
(* (save_files_to_disk, my-api/app.py create_project) and of               *)
(* try_extract_content_from_diff.                                          *)
(*                                                                         *)
(* Text is a sequence of one-character strings.  The text of a JSON object *)
(* is written with two kinds of symbols: an "object symbol" standing for   *)
(* the characters of the object up to its closing brace, and "}" for the   *)
(* closing brace; so an object can be cut between fragments and can be     *)
(* left truncated.  A Python value is a sequence of strings; None is the   *)
(* one-element sequence None.  A Python dict is a sequence of <<key,       *)
(* value>> pairs with distinct keys, in insertion order.                   *)
(***************************************************************************)
EXTENDS Integers, Sequences, FiniteSets, TLC

(***************************************************************************)
(* Bounds.                                                                 *)
(***************************************************************************)
MaxLines == 2        \* lines of model output in one stream
MaxFrag == 5         \* characters in one text fragment
MaxFaults == 1       \* external calls that raise in one run
MaxDiffLines == 3   \* lines of one diff text
MaxSaves == 2        \* direct calls of the file materializers

(***************************************************************************)
(* Python values.                                                          *)
(***************************************************************************)
NL == "\n"
SP == " "
None == <<"<None>">>
Truthy(v) == v # None /\ v # <<>>

RECURSIVE Concat(_)
Concat(ss) == IF ss = <<>> THEN <<>> ELSE Head(ss) \o Concat(Tail(ss))

\* the pieces of str between the characters of seps: n of them give n+1 pieces
RECURSIVE SplitOn(_, _)
SplitOn(str, seps) ==
  IF \A i \in 1..Len(str) : str[i] \notin seps THEN <<str>>
  ELSE LET i == CHOOSE j \in 1..Len(str) :
                  str[j] \in seps /\ \A k \in 1..(j - 1) : str[k] \notin seps
       IN  <<SubSeq(str, 1, i - 1)>> \o SplitOn(SubSeq(str, i + 1, Len(str)), seps)

\* str.split("\n"): the last piece is the text after the last newline
Split(str) == SplitOn(str, {NL})

CR == "\r"

\* str.splitlines() for the line ends \n, \r and \r\n: cur is the line being
\* read, acc the lines read; no empty line after a final line end
RECURSIVE SplitLinesFrom(_, _, _)
SplitLinesFrom(str, cur, acc) ==
  IF str = <<>> THEN (IF cur = <<>> THEN acc ELSE Append(acc, cur))
  ELSE IF Head(str) = CR /\ Len(str) >= 2 /\ str[2] = NL
         THEN SplitLinesFrom(Tail(Tail(str)), <<>>, Append(acc, cur))
  ELSE IF Head(str) \in {NL, CR}
         THEN SplitLinesFrom(Tail(str), <<>>, Append(acc, cur))
  ELSE SplitLinesFrom(Tail(str), Append(cur, Head(str)), acc)

SplitLines(str) == SplitLinesFrom(str, <<>>, <<>>)

\* "\n".join(pieces)
RECURSIVE JoinNL(_)
JoinNL(ps) ==
  IF ps = <<>> THEN <<>>
  ELSE IF Len(ps) = 1 THEN ps[1]
  ELSE ps[1] \o <<NL>> \o JoinNL(Tail(ps))

RECURSIVE LStrip(_)
LStrip(s) == IF s # <<>> /\ Head(s) \in {SP, NL} THEN LStrip(Tail(s)) ELSE s

RECURSIVE RStrip(_)
RStrip(s) ==
  IF s # <<>> /\ s[Len(s)] \in {SP, NL} THEN RStrip(SubSeq(s, 1, Len(s) - 1)) ELSE s

\* str.strip()
Strip(s) == RStrip(LStrip(s))

StartsWith(s, p) == Len(s) >= Len(p) /\ SubSeq(s, 1, Len(p)) = p

(***************************************************************************)
(* Python dicts, in insertion order.                                       *)
(***************************************************************************)
DictKeys(d) == {d[i][1] : i \in 1..Len(d)}
DictGet(d, k) == LET i == CHOOSE j \in 1..Len(d) : d[j][1] = k IN d[i][2]

\* d[k] = v : an existing key keeps its place, a new key goes last
DictSet(d, k, v) ==
  IF k \in DictKeys(d)
    THEN [i \in 1..Len(d) |-> IF d[i][1] = k THEN <<k, v>> ELSE d[i]]
    ELSE Append(d, <<k, v>>)

(***************************************************************************)
(* try_extract_content_from_diff                                           *)
(***************************************************************************)
PlusHeader == <<"+", "+", "+", " ">>
ThreePlus == <<"+", "+", "+">>

\* mutant: a line of three pluses after the header counts as an addition
RECURSIVE ExtractLoopPlusOnly(_, _, _)
ExtractLoopPlusOnly(lines, collect, new_lines) ==
  IF lines = <<>> THEN new_lines
  ELSE LET ln == Head(lines)
       IN  IF StartsWith(ln, PlusHeader) THEN ExtractLoopPlusOnly(Tail(lines), TRUE, new_lines)
           ELSE IF ~collect THEN ExtractLoopPlusOnly(Tail(lines), collect, new_lines)
           ELSE IF StartsWith(ln, <<"+">>) \/ StartsWith(ln, <<SP>>)
                  THEN ExtractLoopPlusOnly(Tail(lines), collect, Append(new_lines, Tail(ln)))
           ELSE ExtractLoopPlusOnly(Tail(lines), collect, new_lines)

\* the loop over the diff's lines (lines 299-316): the new_lines it ends with
RECURSIVE ExtractLoop(_, _, _)
ExtractLoop(lines, collect, new_lines) ==
  IF lines = <<>> THEN new_lines
  ELSE LET ln == Head(lines)
       IN  IF StartsWith(ln, PlusHeader) THEN ExtractLoop(Tail(lines), TRUE, new_lines)
           ELSE IF ~collect THEN ExtractLoop(Tail(lines), collect, new_lines)
           ELSE IF StartsWith(ln, <<"+">>) /\ ~StartsWith(ln, ThreePlus)
                  THEN ExtractLoop(Tail(lines), collect, Append(new_lines, Tail(ln)))
           ELSE IF StartsWith(ln, <<SP>>)
                  THEN ExtractLoop(Tail(lines), collect, Append(new_lines, Tail(ln)))
           ELSE ExtractLoop(Tail(lines), collect, new_lines)

try_extract_content_from_diff(diff_text) ==
  LET new_lines == ExtractLoop(SplitLines(diff_text), FALSE, <<>>)
  IN  IF new_lines # <<>> THEN JoinNL(new_lines) ELSE None

(***************************************************************************)
(* The text of the events.  An object symbol stands for the characters of  *)
(* one JSON object without its closing brace; ObjectFields gives the       *)
(* object's members as json.loads / ast.literal_eval return them (a member *)
(* that is absent is None, as parsed.get returns it).                      *)
(***************************************************************************)
PathA == <<"d", "/", "f">>
PathB == <<"d", "\\", "f">>
DiffGood == <<"-", "x", NL>> \o PlusHeader \o <<"b", NL, "-", "o", NL, "+", "d">>
DiffNoHeader == <<"-", "o", NL, "+", "d">>
DiffEmptyLine == PlusHeader \o <<"b", NL, "+">>

Obj(t, f, c, d) == [type |-> t, file |-> f, content |-> c, diff |-> d]
NoType == "<None>"

\* objects written in JSON (double quotes)
JsonObjects ==
  {"{thought", "{patch A x", "{patch A y+diff", "{patch B diff", "{patch A nohdr",
   "{patch A emptydiff", "{patch nofile", "{patch A", "{commit", "{log", "{notype"}
\* objects written as Python literals that are not JSON (single quotes)
PyObjects == {"{'commit", "{'patch B x"}

ObjectFields(sym) ==
  CASE sym = "{thought"           -> Obj("thought", None, <<"t">>, None)
    [] sym = "{patch A x"         -> Obj("patch", PathA, <<"x">>, None)
    [] sym = "{patch A y+diff"    -> Obj("patch", PathA, <<"y">>, DiffGood)
    [] sym = "{patch B diff"      -> Obj("patch", PathB, None, DiffGood)
    [] sym = "{patch A nohdr"     -> Obj("patch", PathA, <<>>, DiffNoHeader)
    [] sym = "{patch A emptydiff" -> Obj("patch", PathA, None, DiffEmptyLine)
    [] sym = "{patch nofile"      -> Obj("patch", None, <<"x">>, None)
    [] sym = "{patch A"           -> Obj("patch", PathA, None, None)
    [] sym = "{commit"            -> Obj("commit", None, None, None)
    [] sym = "{log"               -> Obj("log", None, <<"x">>, None)
    [] sym = "{notype"            -> Obj(NoType, None, <<"x">>, None)
    [] sym = "{'commit"           -> Obj("commit", None, None, None)
    [] sym = "{'patch B x"        -> Obj("patch", PathB, <<"x">>, None)

\* what a parser returns: a dict (the object symbol), a value that is no dict or
\* an empty dict, or a failure
Parsed(k, s) == [kind |-> k, sym |-> s]
ParseFail == Parsed("fail", "")

\* json.loads(ln): "{" "}" is the empty object, "[1]" a JSON array
JsonLoads(ln) ==
  IF Len(ln) = 2 /\ ln[1] \in JsonObjects /\ ln[2] = "}" THEN Parsed("dict", ln[1])
  ELSE IF ln = <<"{", "}">> THEN Parsed("empty", "")
  ELSE IF ln = <<"[1]">> THEN Parsed("nondict", "")
  ELSE ParseFail

\* mutant: a truncated object is repaired and accepted
LiteralEvalRepairing(ln) ==
  IF Len(ln) >= 1 /\ ln[1] \in PyObjects \cup JsonObjects THEN Parsed("dict", ln[1])
  ELSE ParseFail

\* ast.literal_eval(ln), called when json.loads raised JSONDecodeError
LiteralEval(ln) ==
  IF Len(ln) = 2 /\ ln[1] \in PyObjects /\ ln[2] = "}" THEN Parsed("dict", ln[1])
  ELSE ParseFail

\* lines 414-426: the parsed dict, or ParseFail when the line is not an event
ParseLine(ln) ==
  LET j == JsonLoads(ln)
      parsed == IF j = ParseFail THEN LiteralEval(ln) ELSE j
  IN  IF parsed.kind = "dict" THEN parsed ELSE ParseFail

(***************************************************************************)
(* Paths and the file materializers.  A file on disk is named by the       *)
(* sequence of its path components.                                        *)
(***************************************************************************)
Separators(isPosix) == IF isPosix THEN {"/"} ELSE {"/", "\\"}

\* the components of a path: pieces between separators, empty pieces dropped
PathParts(isPosix, name) ==
  SelectSeq(SplitOn(name, Separators(isPosix)), LAMBDA p : p # <<>>)

IsAbsolute(isPosix, name) == name # <<>> /\ name[1] \in Separators(isPosix)

\* base_path / fname and os.path.join(base_path, filepath): an absolute name
\* replaces the base
JoinPath(isPosix, base, name) ==
  IF IsAbsolute(isPosix, name)
    THEN << <<"/">> >> \o PathParts(isPosix, name)
    ELSE base \o PathParts(isPosix, name)

IsPrefix(p, q) == Len(p) <= Len(q) /\ SubSeq(q, 1, Len(p)) = p

\* mkdir(parents) of the parent and open(path, "w") succeed unless a parent is a
\* file or the path is a directory
CanWrite(d, base, path) ==
  /\ \A q \in DOMAIN d : ~(IsPrefix(q, path) /\ q # path)
  /\ \A q \in DOMAIN d : ~(IsPrefix(path, q) /\ q # path)
  /\ path # base /\ ~IsPrefix(path, base)

\* the loop of save_files_to_disk / create_project: files are written in dict
\* order until one raises; quota is the number of writes before an I/O error
RECURSIVE WriteFiles(_, _, _, _, _)
WriteFiles(isPosix, d, base, files, quota) ==
  IF files = <<>> THEN [disk |-> d, ok |-> TRUE]
  ELSE LET path == JoinPath(isPosix, base, files[1][1])
       IN  IF quota = 0 \/ ~CanWrite(d, base, path) THEN [disk |-> d, ok |-> FALSE]
           ELSE WriteFiles(isPosix, (path :> files[1][2]) @@ d, base, Tail(files),
                           quota - 1)

\* the path opened for each entry of files
Opened(isPosix, base, files) ==
  [i \in 1..Len(files) |-> JoinPath(isPosix, base, files[i][1])]

SaveRecord(fn, isPosix, base, files, ok) ==
  [fn |-> fn, base |-> base, files |-> files, opened |-> Opened(isPosix, base, files),
   ok |-> ok]

\* containers / project_uuid / user_id / normalize_project_name(project_name)
BasePath(uuid) == << <<"containers">>, <<uuid>>, <<"user">>, <<"project">> >>

save_files_to_disk(isPosix, d, uuid, files, quota) ==
  WriteFiles(isPosix, d, BasePath(uuid), files, quota)

\* my-api/app.py: containers / user_id / project / root
RootPath == << <<"containers">>, <<"user">>, <<"project">>, <<"root">> >>

create_project(isPosix, d, files, quota) ==
  WriteFiles(isPosix, d, RootPath, files, quota)

(***************************************************************************)
(* State.                                                                  *)
(***************************************************************************)
VARIABLES
  gh,                    \* a GitHub client is configured (GITHUB_TOKEN)
  VERCEL_TOKEN,          \* a Vercel token is configured
  posix,                 \* the platform's path flavour
  fragments,             \* how the model cuts its output: "any" or "lines"
  pc,                    \* per stream: "idle", "start", "running", "done"
  session,               \* per stream: req.session_id
  text,                  \* per stream: the text the model will produce
  pos,                   \* per stream: characters of text already received
  has_piece,             \* per stream: whether the latest chunk had text ("text",
                         \* "empty"), "unbound" before the first chunk
  buffer,                \* per stream: the partial last line
  complete_lines,        \* per stream: lines of the current fragment not yet handled
  latest_file_contents,  \* per stream: dict path -> content
  out,                   \* per stream: the events yielded to the client
  received,              \* history: concatenation of the non-empty fragments
  handed,                \* history: the stripped lines given to the parser
  events,                \* history: the object symbols of the dispatched events
  raised,                \* history: what raised out of the run, "" if nothing
  chat_history, project_files, project_events, projects,   \* tables
  disk, github, vercel,  \* the three external systems
  nextUuid,              \* uuid4() never repeats
  faults,                \* history: number of external calls that raised
  saves,                 \* history: one record for each call of a file materializer
  commits,               \* history: one record for each commit event handled
  diff_text,             \* the argument of a direct call of try_extract_content_from_diff
  returned               \* what that call returned, NoCall before it

streamVars == <<pc, session, text, has_piece, pos, buffer, complete_lines, latest_file_contents,
                out, received, handed, events, raised>>
tableVars == <<chat_history, project_files, project_events, projects>>
externVars == <<disk, github, vercel, nextUuid, faults, saves, commits>>
configVars == <<gh, VERCEL_TOKEN, posix, fragments>>
callVars == <<diff_text, returned>>
vars == <<configVars, streamVars, tableVars, externVars, callVars>>

NoCall == <<"<no call>">>

Streams == {1, 2}
Running(s) == pc[s] = "running"

Row(sid, fp, c, d) == [session_id |-> sid, file_path |-> fp, content |-> c, diff |-> d]

(***************************************************************************)
(* The model's output: lines ended by a newline, and a last partial line.  *)
(***************************************************************************)
RECURSIVE SeqsUpTo(_, _)
SeqsUpTo(S, n) ==
  IF n = 0 THEN {<<>>}
  ELSE LET shorter == SeqsUpTo(S, n - 1)
       IN  shorter \cup {Append(q, x) : q \in shorter, x \in S}

Ended(ln) == ln \o <<NL>>
ScriptsOf(lineTexts, tails, n) ==
  {Concat([i \in 1..Len(q) |-> Ended(q[i])]) \o t : q \in SeqsUpTo(lineTexts, n), t \in tails}

Line(sym) == <<sym, "}">>
Script(lines) == Concat([i \in 1..Len(lines) |-> Ended(lines[i])])

\* outputs present in every specification: each kind of event, Python-literal
\* lines, lines that are no event, an unterminated last line
BaseScripts ==
  {Script(<<Line("{thought"), Line("{patch A x"), Line("{commit")>>),
   Script(<<Line("{patch A x"), Line("{patch B diff"), Line("{commit")>>),
   Script(<<Line("{commit"), Line("{log"), Line("{notype")>>),
   Script(<<Line("{patch A"), Line("{patch A emptydiff"), Line("{commit")>>),
   Script(<<<<SP, "{thought">>, Line("{'patch B x"), Line("{'commit")>>),
   Script(<<<<"[1]">>, <<"{", "}">>, <<>>, <<SP, "{patch nofile", "}", SP>>>>)
     \o <<"{commit">>}

\* every sequence of patches
PatchLines ==
  {Line("{patch A x"), Line("{patch A y+diff"), Line("{patch B diff"),
   Line("{patch A nohdr"), Line("{patch nofile")}
PatchScripts == ScriptsOf(PatchLines, {<<>>}, MaxLines) \cup BaseScripts

\* every sequence of patches and commits
CommitLines == {Line("{patch A x"), Line("{patch B diff"), Line("{commit")}
CommitScripts == ScriptsOf(CommitLines, {<<>>}, MaxLines) \cup BaseScripts

\* every sequence of lines that are blank, padded, truncated, Python, no dict
TextLines ==
  {<<>>, <<SP>>, <<SP, "{thought", "}", SP>>, <<"{patch A x">>, <<"{'patch B x", "}">>,
   <<"[1]">>, <<"{", "}">>}
TextScripts == ScriptsOf(TextLines, {<<>>, <<"{log", "}">>}, MaxLines) \cup BaseScripts

InitTables(rows) ==
  /\ chat_history = <<>>
  /\ project_files = rows
  /\ project_events = <<>>
  /\ projects = <<>>

InitExtern ==
  /\ disk = <<>>
  /\ github = <<>>
  /\ vercel = {}
  /\ nextUuid = 1
  /\ faults = 0
  /\ saves = <<>>
  /\ commits = <<>>

\* no call of try_extract_content_from_diff made yet, its argument chosen
InitCall(texts) ==
  /\ diff_text \in texts
  /\ returned = NoCall

InitStreams(active, scripts) ==
  /\ pc = [s \in Streams |-> IF s \in active THEN "start" ELSE "idle"]
  /\ session = [s \in Streams |-> "s1"]
  /\ \E t1 \in scripts[1], t2 \in scripts[2] : text = <<t1, t2>>
  /\ pos = [s \in Streams |-> 0]
  /\ has_piece = [s \in Streams |-> "unbound"]
  /\ buffer = [s \in Streams |-> <<>>]
  /\ complete_lines = [s \in Streams |-> <<>>]
  /\ latest_file_contents = [s \in Streams |-> <<>>]
  /\ out = [s \in Streams |-> <<>>]
  /\ received = [s \in Streams |-> <<>>]
  /\ handed = [s \in Streams |-> <<>>]
  /\ events = [s \in Streams |-> <<>>]
  /\ raised = [s \in Streams |-> ""]

\* rows of earlier requests of the same session
OldRows ==
  {<<>>,
   <<Row("s1", PathA, <<"o">>, <<>>), Row("s2", PathB, <<"q">>, <<>>),
     Row("s1", PathA, <<"p">>, <<>>), Row("s1", PathB, <<>>, DiffNoHeader),
     Row("s1", None, <<"z">>, <<>>)>>}

One(scripts) == [s \in Streams |-> IF s = 1 THEN scripts ELSE {<<>>}]

\* one request, both tokens configured, every sequence of patches
Init ==
  /\ gh = TRUE /\ VERCEL_TOKEN = TRUE /\ posix = TRUE /\ fragments = "any"
  /\ InitStreams({1}, One(PatchScripts))
  /\ InitTables(<<>>)
  /\ InitExtern
  /\ InitCall({<<>>})

\* one request, any configuration, rows of earlier requests, patches and commits,
\* each fragment one or more whole lines
InitCommit ==
  /\ gh \in BOOLEAN /\ VERCEL_TOKEN \in BOOLEAN /\ posix = TRUE /\ fragments = "lines"
  /\ InitStreams({1}, One(CommitScripts))
  /\ \E rows \in OldRows : InitTables(rows)
  /\ InitExtern
  /\ InitCall({<<>>})

\* one request, both tokens configured, every sequence of lines of text
InitLines ==
  /\ gh = TRUE /\ VERCEL_TOKEN = TRUE /\ posix = TRUE /\ fragments = "any"
  /\ InitStreams({1}, One(TextScripts))
  /\ InitTables(<<>>)
  /\ InitExtern
  /\ InitCall({<<>>})

(***************************************************************************)
(* event_stream: opening the model stream (lines 339-368).                 *)
(***************************************************************************)
OpenStream(s) ==
  /\ pc[s] = "start"
  /\ pc' = [pc EXCEPT ![s] = "running"]
  /\ buffer' = [buffer EXCEPT ![s] = <<>>]
  /\ latest_file_contents' = [latest_file_contents EXCEPT ![s] = <<>>]
  /\ UNCHANGED <<session, text, has_piece, pos, complete_lines, out, received, handed, events,
                 raised>>
  /\ UNCHANGED <<callVars, configVars, tableVars, externVars>>

\* mutant: the return after the error event is missing
OpenFailFallsThrough(s) ==
  /\ pc[s] = "start"
  /\ pc' = [pc EXCEPT ![s] = "running"]
  /\ out' = [out EXCEPT ![s] = Append(@, "error")]
  /\ raised' = [raised EXCEPT ![s] = "open"]
  /\ UNCHANGED <<session, text, has_piece, pos, buffer, complete_lines, latest_file_contents,
                 received, handed, events>>
  /\ UNCHANGED <<callVars, configVars, tableVars, externVars>>

\* openai.chat.completions.create raises: one error event, then return
OpenFail(s) ==
  /\ pc[s] = "start"
  /\ pc' = [pc EXCEPT ![s] = "done"]
  /\ out' = [out EXCEPT ![s] = Append(@, "error")]
  /\ raised' = [raised EXCEPT ![s] = "open"]
  /\ UNCHANGED <<session, text, has_piece, pos, buffer, complete_lines, latest_file_contents,
                 received, handed, events>>
  /\ UNCHANGED <<callVars, configVars, tableVars, externVars>>

(***************************************************************************)
(* One turn of `for chunk in stream_resp` up to the loop over the          *)
(* complete lines (lines 371-407).                                         *)
(***************************************************************************)
AtChunk(s) == Running(s) /\ complete_lines[s] = <<>>

\* mutant: the partial line of the earlier fragments is dropped
ReassembleWithoutBuffer(buf, text_piece) ==
  LET lines == Split(text_piece)
  IN  [complete_lines |-> SubSeq(lines, 1, Len(lines) - 1), buffer |-> lines[Len(lines)]]

\* lines 402-407: buffer += text_piece; split; keep the last piece
Reassemble(buf, text_piece) ==
  LET lines == Split(buf \o text_piece)
  IN  [complete_lines |-> SubSeq(lines, 1, Len(lines) - 1), buffer |-> lines[Len(lines)]]

\* the lengths the next fragment can have: up to MaxFrag characters cut
\* anywhere, or whole lines (and at the end what is left)
FragmentSizes(s) ==
  IF fragments = "lines"
    THEN {k \in 1..(Len(text[s]) - pos[s]) :
            pos[s] + k = Len(text[s]) \/ text[s][pos[s] + k] = NL}
    ELSE 1..MaxFrag

ReceiveChunk(s) ==
  /\ AtChunk(s)
  /\ \E k \in FragmentSizes(s) :
       /\ pos[s] + k <= Len(text[s])
       /\ LET text_piece == SubSeq(text[s], pos[s] + 1, pos[s] + k)
              r == Reassemble(buffer[s], text_piece)
          IN  /\ pos' = [pos EXCEPT ![s] = @ + k]
              /\ has_piece' = [has_piece EXCEPT ![s] = "text"]
              /\ out' = [out EXCEPT ![s] = Append(@, "delta")]
              /\ received' = [received EXCEPT ![s] = @ \o text_piece]
              /\ buffer' = [buffer EXCEPT ![s] = r.buffer]
              /\ complete_lines' = [complete_lines EXCEPT ![s] = r.complete_lines]
  /\ UNCHANGED <<pc, session, text, latest_file_contents, handed, events, raised>>
  /\ UNCHANGED <<callVars, configVars, tableVars, externVars>>

\* mutant: the chunk without text is forwarded too
EmptyChunkForwarded(s) ==
  /\ AtChunk(s)
  /\ has_piece' = [has_piece EXCEPT ![s] = "empty"]
  /\ out' = [out EXCEPT ![s] = Append(@, "delta")]
  /\ UNCHANGED <<pc, session, text, pos, buffer, complete_lines, latest_file_contents,
                 received, handed, events, raised>>
  /\ UNCHANGED <<callVars, configVars, tableVars, externVars>>

\* lines 373-395: a chunk without text is skipped
EmptyChunk(s) ==
  /\ AtChunk(s)
  /\ has_piece' = [has_piece EXCEPT ![s] = "empty"]
  /\ UNCHANGED <<pc, session, text, pos, buffer, complete_lines, latest_file_contents,
                 out, received, handed, events, raised>>
  /\ UNCHANGED <<callVars, configVars, tableVars, externVars>>

\* the iterator raises: the outer except yields the error event (lines 611-612)
StreamFail(s) ==
  /\ AtChunk(s)
  /\ pc' = [pc EXCEPT ![s] = "done"]
  /\ out' = [out EXCEPT ![s] = Append(@, "error")]
  /\ raised' = [raised EXCEPT ![s] = "stream"]
  /\ UNCHANGED <<session, text, has_piece, pos, buffer, complete_lines, latest_file_contents,
                 received, handed, events>>
  /\ UNCHANGED <<callVars, configVars, tableVars, externVars>>

\* the iterator is exhausted: the done event (lines 608-609)
StreamEnd(s) ==
  /\ AtChunk(s)
  /\ pos[s] = Len(text[s])
  /\ pc' = [pc EXCEPT ![s] = "done"]
  /\ out' = [out EXCEPT ![s] = Append(@, "done")]
  /\ UNCHANGED <<session, text, has_piece, pos, buffer, complete_lines, latest_file_contents,
                 received, handed, events, raised>>
  /\ UNCHANGED <<callVars, configVars, tableVars, externVars>>

(***************************************************************************)
(* One turn of `for ln in complete_lines` (lines 409-606).                 *)
(***************************************************************************)
AtLine(s) == Running(s) /\ complete_lines[s] # <<>>
CurLine(s) == Strip(Head(complete_lines[s]))
CurEvent(s) == ObjectFields(ParseLine(CurLine(s)).sym)
IsEvent(s) == CurLine(s) # <<>> /\ ParseLine(CurLine(s)) # ParseFail

\* what every dispatched event does to the stream's own bookkeeping
Dispatched(s) ==
  /\ complete_lines' = [complete_lines EXCEPT ![s] = Tail(@)]
  /\ handed' = [handed EXCEPT ![s] = Append(@, CurLine(s))]
  /\ events' = [events EXCEPT ![s] = Append(@, ParseLine(CurLine(s)).sym)]
  /\ UNCHANGED <<session, text, has_piece, pos, buffer, received, raised>>

\* supabase_insert inside try/except: the row is added, or the call raised
Inserted(table, row, ok) == IF ok THEN Append(table, row) ELSE table

\* an external call may raise while the run's budget of raised calls lasts
MayFail(ok) == ok \/ faults < MaxFaults
Cost(ok) == IF ok THEN 0 ELSE 1

\* lines 410-426: a blank line, or a line that gives no non-empty dict
IgnoreLine(s) ==
  /\ AtLine(s)
  /\ ~IsEvent(s)
  /\ complete_lines' = [complete_lines EXCEPT ![s] = Tail(@)]
  /\ handed' = [handed EXCEPT ![s] = IF CurLine(s) = <<>> THEN @ ELSE Append(@, CurLine(s))]
  /\ UNCHANGED <<pc, session, text, has_piece, pos, buffer, latest_file_contents, out, received,
                 events, raised>>
  /\ UNCHANGED <<callVars, configVars, tableVars, externVars>>

\* mutant: no branch for thoughts, they fall to the branch of unknown events
ThoughtUnhandled(s) ==
  /\ AtLine(s) /\ IsEvent(s)
  /\ CurEvent(s).type = "thought"
  /\ Dispatched(s)
  /\ \E ok \in BOOLEAN :
       /\ MayFail(ok)
       /\ faults' = faults + Cost(ok)
       /\ project_events' = Inserted(project_events,
                                     [session_id |-> session[s],
                                      event |-> ParseLine(CurLine(s)).sym], ok)
  /\ UNCHANGED <<pc, latest_file_contents, out>>
  /\ UNCHANGED <<chat_history, project_files, projects>>
  /\ UNCHANGED <<callVars, configVars, disk, github, vercel, nextUuid, saves, commits>>

\* lines 431-443
Thought(s) ==
  /\ AtLine(s) /\ IsEvent(s)
  /\ CurEvent(s).type = "thought"
  /\ Dispatched(s)
  /\ \E ok \in BOOLEAN :
       /\ MayFail(ok)
       /\ faults' = faults + Cost(ok)
       /\ chat_history' = Inserted(chat_history,
                                   [session_id |-> session[s],
                                    content |-> CurEvent(s).content], ok)
  /\ UNCHANGED <<pc, latest_file_contents, out>>
  /\ UNCHANGED <<project_files, project_events, projects>>
  /\ UNCHANGED <<callVars, configVars, disk, github, vercel, nextUuid, saves, commits>>

\* mutant: the diff is preferred to the content
SavedContentDiffFirst(content, diff) ==
  IF Truthy(diff) /\ Truthy(try_extract_content_from_diff(diff))
    THEN try_extract_content_from_diff(diff)
  ELSE IF Truthy(content) THEN content
  ELSE None

\* lines 449-460
SavedContent(content, diff) ==
  IF Truthy(content) THEN content
  ELSE IF Truthy(diff)
         THEN LET extracted == try_extract_content_from_diff(diff)
              IN  IF Truthy(extracted) THEN extracted ELSE None
  ELSE None

\* mutant: one table for all requests (a module-level dict)
UpdateLatestShared(tbl, s, file_path, saved_content) ==
  [t \in DOMAIN tbl |-> DictSet(tbl[t], file_path, saved_content)]

\* line 478: the table is a local of the generator
UpdateLatest(tbl, s, file_path, saved_content) ==
  [tbl EXCEPT ![s] = DictSet(@, file_path, saved_content)]

\* mutant: the table is updated inside the try of the insert
PatchUpdateInsideTry(s) ==
  /\ AtLine(s) /\ IsEvent(s)
  /\ CurEvent(s).type = "patch"
  /\ Dispatched(s)
  /\ LET file_path == CurEvent(s).file
         diff == CurEvent(s).diff
         saved_content == SavedContent(CurEvent(s).content, diff)
         row == Row(session[s], file_path,
                    IF saved_content # None THEN saved_content ELSE <<>>,
                    IF Truthy(diff) THEN diff ELSE <<>>)
     IN  \E ok \in BOOLEAN :
           /\ MayFail(ok)
           /\ faults' = faults + Cost(ok)
           /\ project_files' = Inserted(project_files, row, ok)
           /\ latest_file_contents' =
                IF ok /\ saved_content # None /\ Truthy(file_path)
                  THEN UpdateLatest(latest_file_contents, s, file_path, saved_content)
                  ELSE latest_file_contents
  /\ UNCHANGED <<pc, out>>
  /\ UNCHANGED <<chat_history, project_events, projects>>
  /\ UNCHANGED <<callVars, configVars, disk, github, vercel, nextUuid, saves, commits>>

\* lines 445-478
Patch(s) ==
  /\ AtLine(s) /\ IsEvent(s)
  /\ CurEvent(s).type = "patch"
  /\ Dispatched(s)
  /\ LET file_path == CurEvent(s).file
         diff == CurEvent(s).diff
         saved_content == SavedContent(CurEvent(s).content, diff)
         row == Row(session[s], file_path,
                    IF saved_content # None THEN saved_content ELSE <<>>,
                    IF Truthy(diff) THEN diff ELSE <<>>)
     IN  /\ \E ok \in BOOLEAN :
              /\ MayFail(ok)
              /\ faults' = faults + Cost(ok)
              /\ project_files' = Inserted(project_files, row, ok)
         /\ latest_file_contents' =
              IF saved_content # None /\ Truthy(file_path)
                THEN UpdateLatest(latest_file_contents, s, file_path, saved_content)
                ELSE latest_file_contents
  /\ UNCHANGED <<pc, out>>
  /\ UNCHANGED <<chat_history, project_events, projects>>
  /\ UNCHANGED <<callVars, configVars, disk, github, vercel, nextUuid, saves, commits>>

\* lines 596-606
Unknown(s) ==
  /\ AtLine(s) /\ IsEvent(s)
  /\ CurEvent(s).type \notin {"thought", "patch", "commit"}
  /\ Dispatched(s)
  /\ \E ok \in BOOLEAN :
       /\ MayFail(ok)
       /\ faults' = faults + Cost(ok)
       /\ project_events' = Inserted(project_events,
                                     [session_id |-> session[s],
                                      event |-> ParseLine(CurLine(s)).sym], ok)
  /\ UNCHANGED <<pc, latest_file_contents, out>>
  /\ UNCHANGED <<chat_history, project_files, projects>>
  /\ UNCHANGED <<callVars, configVars, disk, github, vercel, nextUuid, saves, commits>>

(***************************************************************************)
(* The commit event (lines 480-595).                                       *)
(***************************************************************************)
Reverse(q) == [i \in 1..Len(q) |-> q[Len(q) + 1 - i]]

\* supabase_select("project_files", session_id = sid), no order_by: the rows of
\* the session, in stored order or backwards
supabase_select(table, sid, backwards) ==
  LET rows == SelectSeq(table, LAMBDA r : r.session_id = sid)
  IN  IF backwards THEN Reverse(rows) ELSE rows

\* lines 491-500: the content of the last row with content, per file_path
RECURSIVE ByFileLoop(_, _)
ByFileLoop(pf_rows, by_file) ==
  IF pf_rows = <<>> THEN by_file
  ELSE LET r == Head(pf_rows)
       IN  IF ~Truthy(r.file_path) THEN ByFileLoop(Tail(pf_rows), by_file)
           ELSE IF Truthy(r.content)
                  THEN ByFileLoop(Tail(pf_rows), DictSet(by_file, r.file_path, r.content))
           ELSE ByFileLoop(Tail(pf_rows), by_file)

ByFile(pf_rows) == ByFileLoop(pf_rows, <<>>)

ReadmeName == <<"README.md">>
ReadmeText == <<"# Projeto gerado">>

\* mutant: no README when nothing was found
FilesToCommitNoReadme(latest, selectOk, pf_rows) ==
  IF latest # <<>> THEN latest
  ELSE IF selectOk THEN ByFile(pf_rows) ELSE <<>>

\* lines 485-506
FilesToCommit(latest, selectOk, pf_rows) ==
  LET copied == latest
      rebuilt == IF copied # <<>> THEN copied
                 ELSE IF selectOk THEN ByFile(pf_rows) ELSE <<>>
  IN  IF rebuilt = <<>> THEN << <<ReadmeName, ReadmeText>> >> ELSE rebuilt

\* mutant: a failed commit ends the generator
AfterCommitAborts(result) == IF result = "commit_error" THEN "done" ELSE "running"

\* lines 594-595: the except of the commit branch yields commit_error and the
\* loop over the lines goes on
AfterCommit(result) == "running"

\* what the external calls of one commit do: c.quota file writes succeed before an
\* I/O error, c.userOk / c.repoOk are gh.get_user() and create_repo, c.push is how
\* the files reached the repository (tree commit, create_file fallback, or neither),
\* c.vercelOk the POST to Vercel, c.insertOk the insert into projects
CommitChoices ==
  [selectOk : BOOLEAN, backwards : BOOLEAN, quota : 0..3, userOk : BOOLEAN,
   repoOk : BOOLEAN, push : {"tree", "fallback", "none"}, vercelOk : BOOLEAN,
   insertOk : BOOLEAN]

CommitRun(s, c) ==
  LET latest == latest_file_contents[s]
      pf_rows == IF latest = <<>> /\ c.selectOk
                   THEN supabase_select(project_files, session[s], c.backwards)
                   ELSE <<>>
      files == FilesToCommit(latest, c.selectOk, pf_rows)
      uuid == ToString(nextUuid)
      w == save_files_to_disk(posix, disk, uuid, files, c.quota)
      gitTried == w.ok /\ gh
      repoCreated == gitTried /\ c.userOk /\ c.repoOk
      gitRaised == gitTried /\ ~repoCreated
      reached == w.ok /\ ~gitRaised
      vercelTried == reached /\ VERCEL_TOKEN
      deployed == vercelTried /\ c.vercelOk
      github_repo_url == IF repoCreated THEN uuid ELSE ""
      result == IF reached THEN "commit" ELSE "commit_error"
      \* the calls that were made, with what each cost
      calls == (IF latest = <<>> THEN <<c.selectOk>> ELSE <<>>)
                 \o <<c.quota >= Len(files)>>
                 \o (IF gitTried THEN <<c.userOk>> ELSE <<>>)
                 \o (IF gitTried /\ c.userOk THEN <<c.repoOk>> ELSE <<>>)
                 \o (IF repoCreated THEN <<c.push = "tree">> ELSE <<>>)
                 \o (IF vercelTried THEN <<c.vercelOk>> ELSE <<>>)
                 \o (IF reached THEN <<c.insertOk>> ELSE <<>>)
      \* a call that was not made has no outcome to choose
      idle == /\ (latest # <<>> => c.selectOk /\ ~c.backwards)
              /\ (~c.selectOk => ~c.backwards)
              /\ c.quota <= Len(files)
              /\ (~gitTried => c.userOk)
              /\ (~(gitTried /\ c.userOk) => c.repoOk)
              /\ (~repoCreated => c.push = "tree")
              /\ (~vercelTried => c.vercelOk)
              /\ (~reached => c.insertOk)
  IN  [files |-> files,
       nfaults |-> Cardinality({i \in 1..Len(calls) : ~calls[i]}),
       idle |-> idle,
       pf_rows |-> pf_rows,
       disk |-> w.disk,
       save |-> SaveRecord("save_files_to_disk", posix, BasePath(uuid), files, w.ok),
       github |-> IF repoCreated
                    THEN Append(github, [name |-> uuid, pushed |-> c.push])
                    ELSE github,
       vercel |-> IF deployed
                    THEN vercel \cup {[name |-> uuid, repo |-> github_repo_url]}
                    ELSE vercel,
       projects |-> IF reached
                      THEN Inserted(projects,
                                    [id |-> uuid, project_id |-> session[s],
                                     llm_output |-> [i \in 1..Len(files) |-> files[i][1]],
                                     github_commit_url |-> github_repo_url,
                                     status |-> IF deployed THEN "deployed" ELSE "created"],
                                    c.insertOk)
                      ELSE projects,
       attempted |-> {"disk"} \cup (IF gitTried THEN {"git"} ELSE {})
                              \cup (IF vercelTried THEN {"vercel"} ELSE {}),
       failed |-> (IF ~w.ok THEN {"disk"} ELSE {})
                    \cup (IF gitRaised \/ (repoCreated /\ c.push = "none") THEN {"git"} ELSE {})
                    \cup (IF vercelTried /\ ~c.vercelOk THEN {"vercel"} ELSE {}),
       result |-> result]

Commit(s) ==
  /\ AtLine(s) /\ IsEvent(s)
  /\ CurEvent(s).type = "commit"
  /\ Dispatched(s)
  /\ \E c \in CommitChoices :
       LET r == CommitRun(s, c)
       IN  /\ r.idle
           /\ faults + r.nfaults <= MaxFaults
           /\ faults' = faults + r.nfaults
           /\ disk' = r.disk
           /\ saves' = Append(saves, r.save)
           /\ github' = r.github
           /\ vercel' = r.vercel
           /\ projects' = r.projects
           /\ nextUuid' = nextUuid + 1
           /\ commits' = Append(commits,
                                [stream |-> s, latest |-> latest_file_contents[s],
                                 selectOk |-> c.selectOk, pf_rows |-> r.pf_rows,
                                 files |-> r.files, attempted |-> r.attempted,
                                 failed |-> r.failed, result |-> r.result,
                                 at |-> Len(handed[s]) + 1])
           /\ out' = [out EXCEPT ![s] = Append(@, r.result)]
           /\ pc' = [pc EXCEPT ![s] = AfterCommit(r.result)]
  /\ UNCHANGED latest_file_contents
  /\ UNCHANGED <<chat_history, project_files, project_events>>
  /\ UNCHANGED <<callVars, configVars>>

(***************************************************************************)
(* The specification of one request.                                       *)
(***************************************************************************)
Next ==
  \E s \in Streams :
    \/ OpenStream(s)
    \/ OpenFail(s)
    \/ ReceiveChunk(s)
    \/ EmptyChunk(s)
    \/ StreamFail(s)
    \/ StreamEnd(s)
    \/ IgnoreLine(s)
    \/ Thought(s)
    \/ Patch(s)
    \/ Commit(s)
    \/ Unknown(s)

Spec == Init /\ [][Next]_vars
SpecCommit == InitCommit /\ [][Next]_vars
SpecLines == InitLines /\ [][Next]_vars

(***************************************************************************)
(* Two requests at once.  Each runs its own generator; the tables, the     *)
(* disk and the hosting services are shared.                               *)
(***************************************************************************)
TwoScripts ==
  <<{Script(<<Line("{patch A x"), Line("{commit")>>)},
    {Script(<<Line("{patch A y+diff"), Line("{log")>>),
     Script(<<Line("{thought"), <<SP>>>>) \o <<"{patch A x">>}>>

InitTwo ==
  /\ gh = TRUE /\ VERCEL_TOKEN = TRUE /\ posix = TRUE /\ fragments = "any"
  /\ InitStreams({1, 2}, TwoScripts)
  /\ InitTables(<<>>)
  /\ InitExtern
  /\ InitCall({<<>>})

SpecTwo == InitTwo /\ [][Next]_vars

(***************************************************************************)
(* The file materializers called on their own, on either platform.         *)
(***************************************************************************)
FileNames ==
  {PathA, PathB, <<"d", "/", "/", "f">>, <<"f">>, <<"/", "f">>}

\* dicts of at most two files
FileDicts ==
  {<<>>} \cup {<< <<n, <<"x">>>> >> : n \in FileNames}
         \cup {<< <<nm[1], <<"x">>>>, <<nm[2], <<"y">>>> >> :
                 nm \in {p \in FileNames \X FileNames : p[1] # p[2]}}

InitDisk ==
  /\ gh = TRUE /\ VERCEL_TOKEN = TRUE /\ posix \in BOOLEAN /\ fragments = "any"
  /\ InitStreams({}, One({<<>>}))
  /\ InitTables(<<>>)
  /\ InitExtern
  /\ InitCall({<<>>})

\* save_files_to_disk(project_uuid, user_id, project_name, files), lines 165-173
SaveFilesToDisk ==
  /\ Len(saves) < MaxSaves
  /\ \E files \in FileDicts : \E quota \in 0..Len(files) :
       LET uuid == ToString(nextUuid)
           w == save_files_to_disk(posix, disk, uuid, files, quota)
       IN  /\ MayFail(quota = Len(files))
           /\ faults' = faults + Cost(quota = Len(files))
           /\ disk' = w.disk
           /\ saves' = Append(saves, SaveRecord("save_files_to_disk", posix,
                                                BasePath(uuid), files, w.ok))
           /\ nextUuid' = nextUuid + 1
  /\ UNCHANGED <<github, vercel, commits>>
  /\ UNCHANGED <<callVars, configVars, streamVars, tableVars>>

\* POST /create_project of my-api/app.py, lines 36-53
CreateProject ==
  /\ Len(saves) < MaxSaves
  /\ \E files \in FileDicts : \E quota \in 0..Len(files) :
       LET w == create_project(posix, disk, files, quota)
       IN  /\ MayFail(quota = Len(files))
           /\ faults' = faults + Cost(quota = Len(files))
           /\ disk' = w.disk
           /\ saves' = Append(saves, SaveRecord("create_project", posix, RootPath,
                                                files, w.ok))
  /\ UNCHANGED <<github, vercel, nextUuid, commits>>
  /\ UNCHANGED <<callVars, configVars, streamVars, tableVars>>

NextDisk == SaveFilesToDisk \/ CreateProject

SpecDisk == InitDisk /\ [][NextDisk]_vars

(***************************************************************************)
(* try_extract_content_from_diff called on its own.                        *)
(***************************************************************************)
\* the lines a diff text is made of: headers, additions, context, removals,
\* other lines, an empty line
DiffLineKinds ==
  {PlusHeader, ThreePlus, <<"+", "a">>, <<"+">>, <<"+", "+">>, <<SP, "a">>, <<SP>>,
   <<"-", "a">>, <<"a">>, <<>>}

LineEnds == {<<NL>>, <<CR>>, <<CR, NL>>}

\* the lines ls, each but the last followed by the line end, the last one
\* followed by it when final
DiffText(ls, end, final) ==
  Concat([i \in 1..Len(ls) |-> ls[i] \o (IF i < Len(ls) \/ final THEN end ELSE <<>>)])

DiffTexts ==
  {DiffText(ls, end, final) :
     ls \in SeqsUpTo(DiffLineKinds, MaxDiffLines), end \in LineEnds, final \in BOOLEAN}

InitDiff ==
  /\ gh = TRUE /\ VERCEL_TOKEN = TRUE /\ posix = TRUE /\ fragments = "any"
  /\ InitStreams({}, One({<<>>}))
  /\ InitTables(<<>>)
  /\ InitExtern
  /\ InitCall(DiffTexts)

\* try_extract_content_from_diff(diff_text), lines 286-321
ExtractContent ==
  /\ returned = NoCall
  /\ returned' = try_extract_content_from_diff(diff_text)
  /\ UNCHANGED <<diff_text, configVars, streamVars, tableVars, externVars>>

NextDiff == ExtractContent

SpecDiff == InitDiff /\ [][NextDiff]_vars

(***************************************************************************)
(* Properties.  The definitions below state the text and the tables        *)
(* directly, by positions, not by the loops of the code.                   *)
(***************************************************************************)
Min(S) == CHOOSE x \in S : \A y \in S : x <= y
Max(S) == CHOOSE x \in S : \A y \in S : y <= x

NewlineAt(t) == {i \in 1..Len(t) : t[i] = NL}

\* the newline-terminated lines of t, in order
LinesOf(t) ==
  LET P == NewlineAt(t)
      nth(j) == CHOOSE i \in P : Cardinality({k \in P : k < i}) = j - 1
  IN  [j \in 1..Cardinality(P) |->
         SubSeq(t, IF j = 1 THEN 1 ELSE nth(j - 1) + 1, nth(j) - 1)]

\* the text after the last newline of t
Unfinished(t) ==
  IF NewlineAt(t) = {} THEN t ELSE SubSeq(t, Max(NewlineAt(t)) + 1, Len(t))

\* l without the blanks around it
Trim(l) ==
  LET I == {i \in 1..Len(l) : l[i] # SP}
  IN  IF I = {} THEN <<>> ELSE SubSeq(l, Min(I), Max(I))

\* the lines that reach the parser: trimmed, blank lines left out
Trimmed(ls) == SelectSeq([j \in 1..Len(ls) |-> Trim(ls[j])], LAMBDA l : l # <<>>)
ParserLines(t) == Trimmed(LinesOf(t))

Deltas(s) == Cardinality({i \in 1..Len(out[s]) : out[s][i] = "delta"})
Finished(s) == pc[s] = "done" /\ raised[s] = ""

\* C1: the lines handed to the parser, followed by the complete lines of the
\* current fragment that still wait, are at every moment the newline-terminated
\* lines of the concatenation of the fragments received, in order; the buffer is
\* the text after the last newline; and a stream read to its end has handed each
\* line of the model's output to the parser exactly once, wherever the fragments
\* were cut.
C1_LinesReassembled ==
  \A s \in Streams :
    /\ handed[s] \o Trimmed(complete_lines[s]) = ParserLines(received[s])
    /\ buffer[s] = Unfinished(received[s])
    /\ (Finished(s) => handed[s] = ParserLines(text[s]))

\* C1 witness: an output of one line, newline last, that arrived in several
\* fragments (so every cut fell inside the line) and was parsed as one event
C1_Witness ==
  \E s \in Streams :
    /\ Finished(s)
    /\ NewlineAt(text[s]) = {Len(text[s])}
    /\ Deltas(s) >= 3
    /\ Len(handed[s]) = 1 /\ Len(events[s]) = 1

\* the step handles the line at the head of complete_lines[s]
HandlesLine(s) == AtLine(s) /\ complete_lines'[s] = Tail(complete_lines[s])

\* the line was ignored: nothing dispatched, persisted, recorded or materialized,
\* and the stream goes on
Ignored(s) ==
  /\ events' = events
  /\ UNCHANGED tableVars
  /\ latest_file_contents' = latest_file_contents
  /\ UNCHANGED <<disk, github, vercel, saves, commits>>
  /\ out' = out
  /\ pc'[s] = "running"

\* l is a text of JSON: a whole object, the empty object or the array
IsJson(l) ==
  \/ Len(l) = 2 /\ l[1] \in JsonObjects /\ l[2] = "}"
  \/ l \in {<<"{", "}">>, <<"[1]">>}

\* l is a whole object written as a Python literal
IsPythonObject(l) == Len(l) = 2 /\ l[1] \in PyObjects /\ l[2] = "}"

SavedOf(e) ==
  CASE Truthy(e.content) -> e.content
    [] ~Truthy(e.content) /\ Truthy(e.diff)
         /\ Truthy(try_extract_content_from_diff(e.diff)) ->
           try_extract_content_from_diff(e.diff)
    [] OTHER -> None

\* the positions of the patches of evs that have a file path and a saved content
UsablePatches(evs, path) ==
  {i \in 1..Len(evs) :
     LET e == ObjectFields(evs[i])
     IN  e.type = "patch" /\ e.file = path /\ Truthy(e.file) /\ SavedOf(e) # None}

PatchedPaths(evs) ==
  {ObjectFields(evs[i]).file : i \in {j \in 1..Len(evs) :
                                        UsablePatches(evs, ObjectFields(evs[j]).file) # {}}}

TableIs(d, evs) ==
  /\ DictKeys(d) = PatchedPaths(evs)
  /\ Len(d) = Cardinality(PatchedPaths(evs))
  /\ \A p \in DictKeys(d) :
       DictGet(d, p) = SavedOf(ObjectFields(evs[Max(UsablePatches(evs, p))]))

\* C3: the table maps each path to the saved content of the most recent patch of
\* that path that had a file path and a saved content, and holds no other path.
C3_LatestTable ==
  \A s \in Streams : TableIs(latest_file_contents[s], events[s])

\* C3 witness: a path patched twice with different saved contents, the second
\* taken from `content` although a diff came with it
C3_Witness ==
  \E s \in Streams :
    /\ events[s] = <<"{patch A x", "{patch A y+diff">>
    /\ latest_file_contents[s] = << <<PathA, <<"y">>>> >>

(***************************************************************************)
(* Commits.                                                                *)
(***************************************************************************)
\* l is the whole text of an object, in either notation
IsObject(l) == Len(l) = 2 /\ l[2] = "}" /\ l[1] \in JsonObjects \cup PyObjects

\* the objects among the lines ls, in order
ObjectsOf(ls) ==
  LET os == SelectSeq(ls, IsObject) IN [i \in 1..Len(os) |-> os[i][1]]

FailedCommits(s) ==
  {i \in 1..Len(commits) : commits[i].stream = s /\ commits[i].failed # {}}

\* C4: in a stream where the disk write, a git hosting call or the deployment
\* call of a commit failed, no error event is emitted for it, and when the model
\* stream is at its end every line of the output has been handed to the parser,
\* every event line dispatched, and the last event is `done`.
C4_CommitFailureDoesNotAbort ==
  \A s \in Streams :
    FailedCommits(s) # {} =>
      /\ (raised[s] = "" => \A j \in 1..Len(out[s]) : out[s][j] # "error")
      /\ (pc[s] = "done" /\ raised[s] = "" =>
            /\ out[s][Len(out[s])] = "done"
            /\ handed[s] = ParserLines(text[s])
            /\ events[s] = ObjectsOf(ParserLines(text[s])))

\* C4 witness: a finished stream whose commit failed on disk, with an event
\* dispatched after it
C4_Witness ==
  \E s \in Streams : \E i \in FailedCommits(s) :
    /\ Finished(s)
    /\ "disk" \in commits[i].failed
    /\ commits[i].at < Len(handed[s])
    /\ ObjectFields(events[s][Len(events[s])]).type = "patch"

\* C5 as stated: with both tokens configured, every commit attempts all three
\* of local disk, git hosting and deployment, whatever fails.
C5_AllThreeAttempted ==
  gh /\ VERCEL_TOKEN =>
    \A i \in 1..Len(commits) : commits[i].attempted = {"disk", "git", "vercel"}

\* a name with every backslash written as a slash
SlashOnly(name) == [i \in 1..Len(name) |-> IF name[i] = "\\" THEN "/" ELSE name[i]]

\* C6 as stated: two paths of one mapping that differ only in the style of their
\* separators are written to the same file by a materialization that
\* completes.
C6_SeparatorsNormalized ==
  \A k \in 1..Len(saves) :
    saves[k].ok =>
      \A i, j \in 1..Len(saves[k].files) :
        SlashOnly(saves[k].files[i][1]) = SlashOnly(saves[k].files[j][1])
          => saves[k].opened[i] = saves[k].opened[j]

\* C7: in each of two concurrent streams the buffer is the unfinished last line
\* of the text that stream has received, and the table is the table of the
\* events among the lines of that text handled so far, whatever the other does.
C7_StreamsIndependent ==
  \A s \in Streams :
    LET own == SubSeq(text[s], 1, pos[s])
        lines == ParserLines(own)
        n == Len(lines) - Len(Trimmed(complete_lines[s]))
    IN  /\ buffer[s] = Unfinished(own)
        /\ n >= 0
        /\ TableIs(latest_file_contents[s], ObjectsOf(SubSeq(lines, 1, n)))

\* C7 witness: both streams hold the same path, each with its own content
C7_Witness ==
  /\ latest_file_contents[1] = << <<PathA, <<"x">>>> >>
  /\ latest_file_contents[2] = << <<PathA, <<"y">>>> >>

Terminals(s) == {i \in 1..Len(out[s]) : out[s][i] \in {"done", "error"}}

\* C8: a stream emits a terminal event at most once and nothing after it; a
\* finished run has emitted one: `done` when the model stream was read to its
\* end, `error` when something raised; and when the model stream could not be
\* opened the error event is the whole output and nothing was handed to the
\* parser, persisted or materialized.
C8_OneTerminalEvent ==
  \A s \in Streams :
    /\ Terminals(s) \subseteq {Len(out[s])}
    /\ (pc[s] = "done" <=> Terminals(s) # {})
    /\ (pc[s] = "done" /\ raised[s] = "" =>
          /\ out[s][Len(out[s])] = "done"
          /\ pos[s] = Len(text[s]) /\ complete_lines[s] = <<>>)
    /\ (pc[s] = "done" /\ raised[s] # "" => out[s][Len(out[s])] = "error")
    /\ (raised[s] = "open" =>
          /\ out[s] = <<"error">>
          /\ handed[s] = <<>> /\ events[s] = <<>> /\ received[s] = <<>>
          /\ chat_history = <<>> /\ project_files = <<>> /\ project_events = <<>>
          /\ projects = <<>> /\ commits = <<>> /\ saves = <<>> /\ disk = <<>>)

\* C8 witness: a run ended by an error after a commit was handled
C8_Witness ==
  \E s \in Streams :
    /\ pc[s] = "done" /\ raised[s] = "stream"
    /\ Len(commits) = 1
    /\ out[s][Len(out[s])] = "error"

RowsWithContent(rows, path) ==
  {i \in 1..Len(rows) :
     rows[i].file_path = path /\ Truthy(path) /\ Truthy(rows[i].content)}

RebuiltPaths(rows) ==
  {rows[i].file_path : i \in {j \in 1..Len(rows) :
                                RowsWithContent(rows, rows[j].file_path) # {}}}

\* C9: the snapshot handed to the materializer at a commit is never empty: it is
\* the latest-file table if that is not empty; or else, for each file path of
\* the returned rows that has a row with content, the content of the last such
\* row; or else the single file README.md.
C9_SnapshotNeverEmpty ==
  /\ Len(saves) = Len(commits)
  /\ \A i \in 1..Len(commits) :
       LET c == commits[i]
       IN  /\ c.files # <<>>
           /\ saves[i].files = c.files
           /\ (c.latest # <<>> => c.files = c.latest)
           /\ (c.latest = <<>> /\ RebuiltPaths(c.pf_rows) # {} =>
                 /\ DictKeys(c.files) = RebuiltPaths(c.pf_rows)
                 /\ Len(c.files) = Cardinality(RebuiltPaths(c.pf_rows))
                 /\ \A p \in DictKeys(c.files) :
                      DictGet(c.files, p)
                        = c.pf_rows[Max(RowsWithContent(c.pf_rows, p))].content)
           /\ (c.latest = <<>> /\ RebuiltPaths(c.pf_rows) = {} =>
                 c.files = << <<ReadmeName, ReadmeText>> >>)

\* C9 witness: a commit with an empty table rebuilt a file from rows that hold
\* two contents for it
C9_Witness ==
  \E i \in 1..Len(commits) :
    /\ commits[i].latest = <<>>
    /\ Cardinality(RowsWithContent(commits[i].pf_rows, PathA)) = 2
    /\ ReadmeName \notin DictKeys(commits[i].files)

NoMaterialization == UNCHANGED <<disk, github, vercel, saves, commits, nextUuid, projects>>

AtMostAppended(table, row) == table' = table \/ table' = Append(table, row)

\* C10: a step that dispatches a `thought` changes at most chat_history, by one
\* row; a step that dispatches an event of another or no type changes at most
\* project_events, by one row; only a `patch` changes a latest-file table and
\* only a `commit` materializes; a step that dispatches nothing does neither.
C10_DispatchByType ==
  [][/\ \A s \in Streams :
          events'[s] # events[s] =>
            LET sym == events'[s][Len(events'[s])]
                e == ObjectFields(sym)
            IN  /\ (e.type = "thought" =>
                      /\ AtMostAppended(chat_history,
                                        [session_id |-> session[s], content |-> e.content])
                      /\ UNCHANGED <<project_files, project_events>>)
                /\ (e.type \notin {"thought", "patch", "commit"} =>
                      /\ AtMostAppended(project_events,
                                        [session_id |-> session[s], event |-> sym])
                      /\ UNCHANGED <<chat_history, project_files>>)
                /\ (e.type # "commit" => NoMaterialization)
                /\ (e.type # "patch" => latest_file_contents' = latest_file_contents)
     /\ (events' = events =>
           NoMaterialization /\ latest_file_contents' = latest_file_contents)]_vars

\* C10 witness: an event of an unknown type and one without type were each
\* recorded in project_events
C10_Witness ==
  \E s \in Streams :
    /\ events[s] = <<"{commit", "{log", "{notype">>
    /\ Len(project_events) = 2

\* the step dispatches an event of stream s and the insert it made raised
InsertRaised(s) ==
  /\ events'[s] # events[s]
  /\ LET e == ObjectFields(events'[s][Len(events'[s])])
     IN  \/ e.type = "thought" /\ chat_history' = chat_history
         \/ e.type = "patch" /\ project_files' = project_files
         \/ e.type \notin {"thought", "patch", "commit"} /\ project_events' = project_events
         \/ e.type = "commit" /\ out'[s] = Append(out[s], "commit") /\ projects' = projects

\* such a step goes on to the next line without an error event, and a patch
\* still enters the table
InsertFailureStep(s) ==
  InsertRaised(s) =>
    LET e == ObjectFields(events'[s][Len(events'[s])])
    IN  /\ pc'[s] = "running" /\ raised'[s] = ""
        /\ complete_lines'[s] = Tail(complete_lines[s])
        /\ out'[s] \in {out[s], Append(out[s], "commit")}
        /\ (e.type = "patch" =>
              latest_file_contents'[s] =
                IF SavedOf(e) # None /\ Truthy(e.file)
                  THEN DictSet(latest_file_contents[s], e.file, SavedOf(e))
                  ELSE latest_file_contents[s])

\* a run in which a call raised and that read the model stream to its end has
\* dispatched every event line and ended with done
RaisedCallsSurvived ==
  \A s \in Streams :
    faults > 0 /\ Finished(s) =>
      /\ out[s][Len(out[s])] = "done"
      /\ handed[s] = ParserLines(text[s])
      /\ events[s] = ObjectsOf(ParserLines(text[s]))

\* C11: a step whose insert into chat_history, project_files, project_events or
\* projects raised emits no error event and leaves the stream running at the
\* next line; when it dispatched a patch the latest-file table of the stream
\* holds the patch's saved content all the same; and a run in which a call
\* raised still dispatches every later event and ends with done.
C11_InsertFailureTolerated ==
  /\ []RaisedCallsSurvived
  /\ [][\A s \in Streams : InsertFailureStep(s)]_vars

\* C11 witness: the insert of the first patch raised, the table took its content,
\* the second patch was persisted and replaced it, and the run ended with done
C11_Witness ==
  \E s \in Streams :
    /\ Finished(s)
    /\ events[s] = <<"{patch A x", "{patch A y+diff">>
    /\ Len(project_files) = 1 /\ project_files[1].content = <<"y">>
    /\ latest_file_contents[s] = << <<PathA, <<"y">>>> >>

\* the positions of t that end a line: a \n, or a \r that no \n follows
LineEndAt(t) ==
  {i \in 1..Len(t) : t[i] = NL \/ (t[i] = CR /\ ~(i < Len(t) /\ t[i + 1] = NL))}

\* the lines of t without their line ends, the unended last one included
DiffLines(t) ==
  LET B == LineEndAt(t)
      nth(j) == CHOOSE i \in B : Cardinality({k \in B : k < i}) = j - 1
      first(j) == IF j = 1 THEN 1 ELSE nth(j - 1) + 1
      last(j) == IF t[nth(j)] = NL /\ nth(j) > first(j) /\ t[nth(j) - 1] = CR
                   THEN nth(j) - 2 ELSE nth(j) - 1
      ended == [j \in 1..Cardinality(B) |-> SubSeq(t, first(j), last(j))]
  IN  IF Len(t) > 0 /\ (B = {} \/ Max(B) < Len(t))
        THEN Append(ended, SubSeq(t, IF B = {} THEN 1 ELSE Max(B) + 1, Len(t)))
        ELSE ended

\* the positions of the lines of ls that are collected
Collected(ls) ==
  LET H == {i \in 1..Len(ls) : StartsWith(ls[i], <<"+", "+", "+", SP>>)}
  IN  IF H = {} THEN {}
      ELSE {i \in (Min(H) + 1)..Len(ls) :
              /\ ls[i] # <<>>
              /\ ls[i][1] \in {"+", SP}
              /\ ~StartsWith(ls[i], <<"+", "+", "+">>)}

TakesChunk(s) == has_piece'[s] # has_piece[s] \/ pos'[s] # pos[s]

\* a chunk with text is forwarded as the next event before any of its lines is
\* handled; a chunk without text changes nothing the client or the parser sees
ChunkStep(s) ==
  TakesChunk(s) =>
    /\ has_piece'[s] = (IF pos'[s] > pos[s] THEN "text" ELSE "empty")
    /\ handed'[s] = handed[s] /\ events'[s] = events[s]
    /\ latest_file_contents'[s] = latest_file_contents[s]
    /\ UNCHANGED <<tableVars, externVars>>
    /\ IF has_piece'[s] = "empty"
         THEN /\ out'[s] = out[s]
              /\ buffer'[s] = buffer[s]
              /\ complete_lines'[s] = complete_lines[s]
              /\ received'[s] = received[s]
         ELSE /\ out'[s] = Append(out[s], "delta")
              /\ received'[s] = received[s] \o SubSeq(text[s], pos[s] + 1, pos'[s])

\* no other step emits a delta
DeltaOnlyForChunk(s) ==
  Len(out'[s]) > Len(out[s]) /\ out'[s][Len(out'[s])] = "delta"
    => pos'[s] > pos[s]

\* there is a delta exactly when text was received, at most one for each
\* character, and a commit notification comes after a delta
DeltasForText ==
  \A s \in Streams :
    /\ (Deltas(s) = 0 <=> received[s] = <<>>)
    /\ Deltas(s) <= Len(received[s])
    /\ \A j \in 1..Len(out[s]) :
         out[s][j] \in {"commit", "commit_error"} =>
           \E i \in 1..(j - 1) : out[s][i] = "delta"

\* C13: each chunk with text is forwarded as a delta event in the step that
\* takes it, at the end of the output so far and before any line it completes
\* is handled, the fragment that arrived being what that step adds to the
\* received text; a chunk without text adds no event and leaves the buffer as it
\* was; no other step emits a delta.
C13_DeltaBeforeLines ==
  /\ []DeltasForText
  /\ [][\A s \in Streams : ChunkStep(s) /\ DeltaOnlyForChunk(s)]_vars

\* C13 witness: two fragments with text were forwarded, a commit they completed
\* was notified after them, and the last chunk had no text
C13_Witness ==
  \E s \in Streams :
    /\ Finished(s)
    /\ has_piece[s] = "empty"
    /\ Deltas(s) = 2
    /\ \E j \in 1..Len(out[s]) : out[s][j] = "commit" /\ j > 2

====
